---- MODULE Spec2Model ----
(***************************************************************************)
(* Model of tools/importers/CNTK/lib/cntk_layers.py: the CNTK -> ELL layer *)
(* conversion pipeline (LayerFactory, the layer wrapper classes,           *)
(* get_filtered_layers_list and convert_cntk_layers_to_ell_layers).        *)
(***************************************************************************)
EXTENDS Integers, Sequences, FiniteSets, TLC

(***************************************************************************)
(* Bounds of the model.                                                    *)
(***************************************************************************)
MaxNodes == 3
MaxReceptiveField == 5
MaxUpperPad == 2

(***************************************************************************)
(* ELL padding parameters and shapes.                                      *)
(***************************************************************************)
PaddingParameters(scheme, size) == [paddingScheme |-> scheme, paddingSize |-> size]

NoPadding == PaddingParameters("none", 0)

\* value of an ell_output* annotation that has not been assigned yet
UnsetPadding == PaddingParameters("unset", 0)

LayerShape(r, c, ch) == [rows |-> r, columns |-> c, channels |-> ch]

UnsetShape == LayerShape(0, 0, 0)

\* CNTK shapes are tuples (channels, rows, columns); <<>> is the empty shape
get_adjusted_shape(shape, padding) ==
    LayerShape(shape[2] + 2 * padding.paddingSize,
               shape[3] + 2 * padding.paddingSize,
               shape[1])

get_shape(shape) == LayerShape(shape[2], shape[3], shape[1])

\* Python int(a / 2): true division, then truncation toward zero
IntHalf(a) == IF a >= 0 THEN a \div 2 ELSE -((-a) \div 2)

(***************************************************************************)
(* CNTK graph nodes (the Graph Provider's objects), as far as the code     *)
(* reads them.                                                             *)
(***************************************************************************)
None == "None"

ShapeA == <<2, 4, 4>>
ShapeB == <<3, 2, 2>>
ShapeC == <<1, 1, 1>>
EmptyShape == <<>>

Attributes(hasAuto, auto, upper, window, pt) ==
    [hasAutoPadding |-> hasAuto, autoPadding |-> auto, upperPad |-> upper,
     poolingWindowShape |-> window, strides |-> <<1, 2, 3>>, poolingType |-> pt]

NoAttributes == Attributes(FALSE, <<>>, <<0, 0>>, <<1, 1>>, "none")

\* a ReLU node with one non-empty argument; the other nodes vary it
BaseNode ==
    [op_name |-> "ReLU", is_function |-> TRUE, is_block |-> FALSE,
     arguments |-> <<ShapeA>>, inputs |-> <<ShapeA>>,
     parameters |-> <<>>, constants |-> <<>>,
     output_name |-> "out", output_shape |-> ShapeA,
     attributes |-> NoAttributes, inner_attributes |-> NoAttributes,
     receptiveField |-> 1, owner_name |-> "none",
     softmax |-> FALSE, activation |-> None]

AutoPaddings == {<<FALSE, FALSE>>, <<TRUE, TRUE>>, <<FALSE, TRUE, TRUE>>,
                 <<TRUE, FALSE, FALSE>>}

UpperPads == {<<u, v>> : u \in 0..MaxUpperPad, v \in {0, MaxUpperPad}}

\* attribute maps of convolution and pooling nodes
ConvAttributes ==
    {Attributes(TRUE, a, u, <<1, 1>>, "none") : a \in AutoPaddings, u \in UpperPads}
      \cup {Attributes(FALSE, <<>>, u, <<1, 1>>, "none") : u \in UpperPads}

PoolAttributes ==
    {Attributes(TRUE, a, u, <<w, w>>, pt) :
        a \in {<<FALSE, FALSE>>, <<TRUE, TRUE>>}, u \in {<<0, 0>>, <<MaxUpperPad, MaxUpperPad>>},
        w \in {2, 3}, pt \in {"max", "average"}}
      \cup {Attributes(FALSE, <<>>, <<MaxUpperPad, MaxUpperPad>>, <<w, w>>, pt) :
              w \in {2, 3}, pt \in {"max", "average"}}

Activations == {None, "relu", "leaky"}

DenseNodes ==
    {[BaseNode EXCEPT !.op_name = op, !.is_block = b, !.parameters = <<8, 2>>,
                      !.output_shape = ShapeB, !.softmax = s, !.activation = a] :
        op \in {"Dense", "linear"}, b \in BOOLEAN, s \in BOOLEAN, a \in Activations}

ConvolutionBlockNodes ==
    {[BaseNode EXCEPT !.op_name = "Convolution", !.is_block = TRUE,
                      !.arguments = args, !.inputs = args \o <<<<3, 2, 3, 3>>>>,
                      !.parameters = <<18, 3>>, !.output_shape = ShapeB,
                      !.inner_attributes = at, !.receptiveField = r,
                      !.softmax = s, !.activation = a] :
        args \in {<<ShapeA>>, <<>>}, at \in ConvAttributes, r \in 1..MaxReceptiveField,
        s \in BOOLEAN, a \in {None, "relu"}}

\* a non-block Convolution: inputs are the data and the binarized weights
BinaryConvolutionNodes ==
    {[BaseNode EXCEPT !.op_name = "Convolution", !.is_block = FALSE,
                      !.arguments = args, !.inputs = ins,
                      !.output_shape = ShapeB, !.attributes = at,
                      !.receptiveField = r, !.owner_name = f] :
        args \in {<<ShapeA>>, <<>>},
        ins \in {<<ShapeA, <<3, 2, 3, 3>>>>, <<<<3, 2, 3, 3>>, ShapeA>>, <<ShapeA>>},
        at \in {Attributes(TRUE, <<TRUE, TRUE>>, <<0, 0>>, <<1, 1>>, "none"),
                Attributes(FALSE, <<>>, <<1, 1>>, <<1, 1>>, "none")},
        r \in {1, MaxReceptiveField}, f \in {"Sign", "Other"}}

PoolingNodes ==
    {[BaseNode EXCEPT !.op_name = op, !.is_block = TRUE, !.inner_attributes = at,
                      !.output_shape = ShapeB] :
        op \in {"MaxPooling", "AveragePooling", "Pooling"}, at \in PoolAttributes}
      \cup
    {[BaseNode EXCEPT !.op_name = op, !.is_block = FALSE, !.attributes = at,
                      !.output_shape = ShapeB] :
        op \in {"MaxPooling", "AveragePooling", "Pooling"}, at \in PoolAttributes}

ValueLists == {<<>>, <<1>>, <<4>>, <<1, 1>>, <<4, 4>>, <<1, 4>>}

ElementTimesNodes ==
    {[BaseNode EXCEPT !.op_name = "ElementTimes", !.parameters = p, !.constants = c] :
        p \in ValueLists, c \in ValueLists}

PlusNodes ==
    {[BaseNode EXCEPT !.op_name = "Plus", !.parameters = p] : p \in ValueLists}

MinusNodes ==
    {[BaseNode EXCEPT !.op_name = "Minus", !.constants = c, !.output_name = n] :
        c \in ValueLists, n \in {"mean_removed_input", "out"}}

ArgumentLists == {<<>>, <<ShapeA>>, <<EmptyShape>>, <<EmptyShape, ShapeA>>,
                  <<ShapeA, EmptyShape>>}

SimpleNodes ==
    {[BaseNode EXCEPT !.op_name = op, !.arguments = args, !.inputs = args,
                      !.is_function = f,
                      !.parameters = IF op \in {"PReLU", "BatchNormalization"}
                                     THEN <<2, 2>> ELSE <<>>,
                      !.constants = IF op = "BatchNormalization" THEN <<2, 2>> ELSE <<>>,
                      !.output_shape = IF op = "CrossEntropyWithSoftmax"
                                       THEN ShapeC ELSE ShapeA] :
        op \in {"ReLU", "LeakyReLU", "PReLU", "Softmax", "BatchNormalization",
                "CrossEntropyWithSoftmax", "Dropout"},
        args \in ArgumentLists, f \in BOOLEAN}

AllNodes ==
    DenseNodes \cup ConvolutionBlockNodes \cup BinaryConvolutionNodes \cup PoolingNodes
      \cup ElementTimesNodes \cup PlusNodes \cup MinusNodes \cup SimpleNodes

(***************************************************************************)
(* Layer wrappers.  A wrapper is the Python object under construction; the *)
(* ell_* annotations the code stores on the wrapped node are kept with the *)
(* wrapper (idx is the node's position in modelLayers, its identity).      *)
(* Numeric payloads (weights, bias vectors) are not part of the model.     *)
(***************************************************************************)
NewSelf(cls, idx) ==
    [class |-> cls, op_name |-> None, idx |-> idx,
     has_input_shape |-> FALSE, input_shape |-> EmptyShape,
     attributes |-> NoAttributes, receptiveField |-> 0,
     padding_scheme |-> None, pooling_type |-> None, actual_layer |-> None,
     scale |-> None,
     ell_inputPaddingParameters |-> UnsetPadding, ell_inputShape |-> UnsetShape,
     ell_outputPaddingParameters |-> UnsetPadding, ell_outputShape |-> UnsetShape,
     ell_outputShapeMinusPadding |-> UnsetShape]

NoObject == NewSelf(None, 0)

\* outcome of a constructor or of the factory: an object, None, or an exception
Ok(obj) == [kind |-> "object", exc |-> None, obj |-> obj]
Raise(e) == [kind |-> "raise", exc |-> e, obj |-> NoObject]
ReturnNone == [kind |-> "none", exc |-> None, obj |-> NoObject]

BaseLayer_get_input_padding_parameters(self) ==
    Ok(PaddingParameters("zeros", 0))

\* variant: the auto-padding flag is read at index 0, as the pooling code does
ConvolutionLayer_get_input_padding_parameters_Index0(self) ==
    LET receptiveField == self.receptiveField
        padding ==
            IF self.attributes.hasAutoPadding
            THEN IF self.attributes.autoPadding[1] = TRUE
                 THEN IntHalf(receptiveField - 1)
                 ELSE self.attributes.upperPad[1]
            ELSE self.attributes.upperPad[1]
    IN  Ok(PaddingParameters("zeros", padding))

ConvolutionLayer_get_input_padding_parameters(self) ==
    LET receptiveField == self.receptiveField
        padding ==
            IF self.attributes.hasAutoPadding
            THEN IF self.attributes.autoPadding[2] = TRUE
                 THEN IntHalf(receptiveField - 1)
                 ELSE self.attributes.upperPad[1]
            ELSE self.attributes.upperPad[1]
    IN  Ok(PaddingParameters("zeros", padding))

BinaryConvolutionLayer_get_input_padding_parameters(self) ==
    LET receptiveField == self.receptiveField
        padding ==
            IF self.attributes.hasAutoPadding
            THEN IF self.attributes.autoPadding[2] = TRUE
                 THEN IntHalf(receptiveField - 1)
                 ELSE self.attributes.upperPad[1]
            ELSE self.attributes.upperPad[1]
    IN  Ok(PaddingParameters("zeros", padding))

\* self.padding_scheme is read last: an object that never set it raises
\* AttributeError
BasePoolingLayer_get_input_padding_parameters_RoundUp(self) ==
    LET padding ==
            IF self.attributes.hasAutoPadding
            THEN IF self.attributes.autoPadding[1] = TRUE
                 THEN IntHalf(self.attributes.poolingWindowShape[1])
                 ELSE self.attributes.upperPad[1]
            ELSE self.attributes.upperPad[1]
    IN  IF self.padding_scheme = None
        THEN Raise("AttributeError")
        ELSE Ok(PaddingParameters(self.padding_scheme, padding))

BasePoolingLayer_get_input_padding_parameters(self) ==
    LET padding ==
            IF self.attributes.hasAutoPadding
            THEN IF self.attributes.autoPadding[1] = TRUE
                 THEN IntHalf(self.attributes.poolingWindowShape[1] - 1)
                 ELSE self.attributes.upperPad[1]
            ELSE self.attributes.upperPad[1]
    IN  IF self.padding_scheme = None
        THEN Raise("AttributeError")
        ELSE Ok(PaddingParameters(self.padding_scheme, padding))

\* method resolution of self.get_input_padding_parameters()
get_input_padding_parameters(self) ==
    CASE self.class = "ConvolutionLayer" ->
            ConvolutionLayer_get_input_padding_parameters(self)
      [] self.class = "BinaryConvolutionLayer" ->
            BinaryConvolutionLayer_get_input_padding_parameters(self)
      [] self.class \in {"MaxPoolingLayer", "AveragePoolingLayer", "PoolingLayer"} ->
            BasePoolingLayer_get_input_padding_parameters(self)
      [] OTHER -> BaseLayer_get_input_padding_parameters(self)

BaseLayer_init(self, layer) ==
    LET p == get_input_padding_parameters(self)
        s == IF ~self.has_input_shape /\ Len(layer.arguments) > 0
                  /\ Len(layer.arguments[1]) > 0
             THEN [self EXCEPT !.has_input_shape = TRUE,
                               !.input_shape = layer.arguments[1]]
             ELSE self
    IN  IF p.kind = "raise" THEN p
        ELSE IF s.has_input_shape
        THEN Ok([s EXCEPT !.ell_inputPaddingParameters = p.obj,
                          !.ell_inputShape = get_adjusted_shape(s.input_shape, p.obj)])
        ELSE Raise("RuntimeError")

DenseLayer_init(layer, idx) ==
    IF ~layer.is_block THEN Raise("ValueError")
    ELSE BaseLayer_init([NewSelf("DenseLayer", idx) EXCEPT !.op_name = "Dense"], layer)

BinaryConvolutionLayer_init(layer, idx) ==
    IF layer.is_block THEN Raise("ValueError")
    ELSE LET first3 == Len(layer.inputs[1]) = 3
             \* index of input_parameter and of weights_input in layer.inputs
             ip == IF first3 THEN 1 ELSE 2
             wi == IF first3 THEN 2 ELSE 1
         IN  IF Len(layer.inputs) < 2 THEN Raise("IndexError")
             ELSE IF layer.owner_name # "Sign" THEN Raise("ValueError")
             ELSE BaseLayer_init(
                    [NewSelf("BinaryConvolutionLayer", idx) EXCEPT
                        !.op_name = "BinaryConvolution",
                        !.attributes = layer.attributes,
                        !.receptiveField = layer.receptiveField,
                        !.has_input_shape = TRUE,
                        !.input_shape = layer.inputs[ip]], layer)

ConvolutionLayer_init(layer, idx) ==
    IF ~layer.is_block THEN Raise("ValueError")
    ELSE IF Len(layer.arguments) = 0 THEN Raise("IndexError")
    ELSE BaseLayer_init(
            [NewSelf("ConvolutionLayer", idx) EXCEPT
                !.op_name = "Convolution",
                !.attributes = layer.inner_attributes,
                !.receptiveField = layer.receptiveField,
                !.has_input_shape = TRUE,
                !.input_shape = layer.arguments[1]], layer)

LinearLayer_init(layer, idx) ==
    BaseLayer_init([NewSelf("LinearLayer", idx) EXCEPT !.op_name = "linear"], layer)

ElementTimesLayer_init(layer, idx) ==
    IF Len(layer.parameters) # 1 /\ Len(layer.constants) # 1
    THEN Raise("ValueError")
    ELSE BaseLayer_init(
            [NewSelf("ElementTimesLayer", idx) EXCEPT
                !.op_name = "ElementTimes",
                !.scale = IF Len(layer.constants) > 0 THEN "constants[0]"
                          ELSE IF Len(layer.parameters) > 0 THEN "parameters[0]"
                          ELSE None], layer)

BasePoolingLayer_init(self, layer) ==
    BaseLayer_init(
        [self EXCEPT !.attributes = IF layer.is_block THEN layer.inner_attributes
                                    ELSE layer.attributes], layer)

MaxPoolingLayer_init(layer, idx) ==
    BasePoolingLayer_init(
        [NewSelf("MaxPoolingLayer", idx) EXCEPT
            !.op_name = "MaxPooling", !.padding_scheme = "min", !.pooling_type = "max"],
        layer)

AveragePoolingLayer_init(layer, idx) ==
    BasePoolingLayer_init(
        [NewSelf("AveragePoolingLayer", idx) EXCEPT
            !.op_name = "AveragePooling", !.padding_scheme = "zeros",
            !.pooling_type = "mean"],
        layer)

\* The sub-wrapper is built on the same node, so its constructor rewrites the
\* node's ell_input* annotations; process is the sub-wrapper's.
PoolingLayer_init(layer, idx) ==
    LET base == BasePoolingLayer_init(
                    [NewSelf("PoolingLayer", idx) EXCEPT !.op_name = "Pooling"], layer)
        actual == IF base.obj.attributes.poolingType = "max"
                  THEN AveragePoolingLayer_init(layer, idx)
                  ELSE MaxPoolingLayer_init(layer, idx)
    IN  IF base.kind = "raise" THEN base
        ELSE IF actual.kind = "raise" THEN actual
        ELSE Ok([base.obj EXCEPT
                    !.actual_layer = actual.obj.class,
                    !.padding_scheme = actual.obj.padding_scheme,
                    !.pooling_type = actual.obj.pooling_type,
                    !.ell_inputPaddingParameters = actual.obj.ell_inputPaddingParameters,
                    !.ell_inputShape = actual.obj.ell_inputShape])

ReLULayer_init(layer, idx) ==
    BaseLayer_init([NewSelf("ReLULayer", idx) EXCEPT !.op_name = "ReLU"], layer)

LeakyReLULayer_init(layer, idx) ==
    BaseLayer_init([NewSelf("LeakyReLULayer", idx) EXCEPT !.op_name = "LeakyReLU"], layer)

PReLULayer_init(layer, idx) ==
    BaseLayer_init([NewSelf("PReLULayer", idx) EXCEPT !.op_name = "PReLU"], layer)

SoftmaxLayer_init(layer, idx) ==
    BaseLayer_init([NewSelf("SoftmaxLayer", idx) EXCEPT !.op_name = "Softmax"], layer)

BatchNormalizationLayer_init(layer, idx) ==
    BaseLayer_init(
        [NewSelf("BatchNormalizationLayer", idx) EXCEPT !.op_name = "BatchNormalization"],
        layer)

BiasLayer_init(layer, idx) ==
    IF Len(layer.parameters) # 1 THEN Raise("ValueError")
    ELSE BaseLayer_init([NewSelf("BiasLayer", idx) EXCEPT !.op_name = "Plus"], layer)

\* `len(constants) != 1 and constants[0].value.size != 1`: with no constant the
\* second operand is evaluated and constants[0] raises IndexError
NegativeBiasLayer_init(layer, idx) ==
    IF Len(layer.constants) # 1 /\ Len(layer.constants) = 0 THEN Raise("IndexError")
    ELSE IF Len(layer.constants) # 1 /\ layer.constants[1] # 1 THEN Raise("ValueError")
    ELSE IF layer.output_name # "mean_removed_input" THEN Raise("ValueError")
    ELSE BaseLayer_init([NewSelf("NegativeBiasLayer", idx) EXCEPT !.op_name = "Minus"], layer)

(***************************************************************************)
(* LayerFactory.                                                           *)
(***************************************************************************)
Construct(cntkLayer, idx) ==
    CASE cntkLayer.op_name = "AveragePooling" -> AveragePoolingLayer_init(cntkLayer, idx)
      [] cntkLayer.op_name = "BatchNormalization" ->
            BatchNormalizationLayer_init(cntkLayer, idx)
      [] cntkLayer.op_name = "Convolution" ->
            IF cntkLayer.is_block THEN ConvolutionLayer_init(cntkLayer, idx)
            ELSE BinaryConvolutionLayer_init(cntkLayer, idx)
      [] cntkLayer.op_name = "Dense" -> DenseLayer_init(cntkLayer, idx)
      [] cntkLayer.op_name = "ElementTimes" -> ElementTimesLayer_init(cntkLayer, idx)
      [] cntkLayer.op_name = "LeakyReLU" -> LeakyReLULayer_init(cntkLayer, idx)
      [] cntkLayer.op_name = "linear" -> LinearLayer_init(cntkLayer, idx)
      [] cntkLayer.op_name = "MaxPooling" -> MaxPoolingLayer_init(cntkLayer, idx)
      [] cntkLayer.op_name = "Minus" -> NegativeBiasLayer_init(cntkLayer, idx)
      [] cntkLayer.op_name = "Plus" -> BiasLayer_init(cntkLayer, idx)
      [] cntkLayer.op_name = "Pooling" -> PoolingLayer_init(cntkLayer, idx)
      [] cntkLayer.op_name = "PReLU" -> PReLULayer_init(cntkLayer, idx)
      [] cntkLayer.op_name = "ReLU" -> ReLULayer_init(cntkLayer, idx)
      [] cntkLayer.op_name = "Softmax" -> SoftmaxLayer_init(cntkLayer, idx)
      [] OTHER -> ReturnNone

\* except (ValueError, AttributeError): return None; anything else propagates
get_layer_object(cntkLayer, idx) ==
    LET r == Construct(cntkLayer, idx)
    IN  IF r.kind = "raise" /\ r.exc \in {"ValueError", "AttributeError"}
        THEN ReturnNone
        ELSE r

has_inputs_NoShapeCheck(cntkLayer) ==
    \/ Len(cntkLayer.arguments) > 0
    \/ cntkLayer.op_name = "Convolution" /\ Len(cntkLayer.inputs) > 0
         /\ Len(cntkLayer.inputs[1]) > 0

has_inputs_AnyArgument(cntkLayer) ==
    \/ \E a \in 1..Len(cntkLayer.arguments) : Len(cntkLayer.arguments[a]) > 0
    \/ cntkLayer.op_name = "Convolution" /\ Len(cntkLayer.inputs) > 0
         /\ Len(cntkLayer.inputs[1]) > 0

has_inputs(cntkLayer) ==
    \/ Len(cntkLayer.arguments) > 0 /\ Len(cntkLayer.arguments[1]) > 0
    \/ cntkLayer.op_name = "Convolution" /\ Len(cntkLayer.inputs) > 0
         /\ Len(cntkLayer.inputs[1]) > 0

(***************************************************************************)
(* Output characteristics and the primitive ELL layers each wrapper emits. *)
(***************************************************************************)
\* variant: the output padding is taken from the layer's own input padding
set_output_characteristics_OwnPadding(self, layer, hasNext, nextLayer) ==
    IF hasNext
    THEN [self EXCEPT
            !.ell_outputPaddingParameters = self.ell_inputPaddingParameters,
            !.ell_outputShape =
                get_adjusted_shape(layer.output_shape, self.ell_inputPaddingParameters),
            !.ell_outputShapeMinusPadding = get_shape(layer.output_shape)]
    ELSE [self EXCEPT
            !.ell_outputPaddingParameters = NoPadding,
            !.ell_outputShape = get_adjusted_shape(layer.output_shape, NoPadding),
            !.ell_outputShapeMinusPadding =
                get_adjusted_shape(layer.output_shape, NoPadding)]

\* variant: the last layer keeps its input padding on its output
set_output_characteristics_LastPadded(self, layer, hasNext, nextLayer) ==
    IF hasNext
    THEN [self EXCEPT
            !.ell_outputPaddingParameters = nextLayer.ell_inputPaddingParameters,
            !.ell_outputShape =
                get_adjusted_shape(layer.output_shape, nextLayer.ell_inputPaddingParameters),
            !.ell_outputShapeMinusPadding = get_shape(layer.output_shape)]
    ELSE [self EXCEPT
            !.ell_outputPaddingParameters = self.ell_inputPaddingParameters,
            !.ell_outputShape =
                get_adjusted_shape(layer.output_shape, self.ell_inputPaddingParameters),
            !.ell_outputShapeMinusPadding =
                get_adjusted_shape(layer.output_shape, self.ell_inputPaddingParameters)]

set_output_characteristics(self, layer, hasNext, nextLayer) ==
    IF hasNext
    THEN [self EXCEPT
            !.ell_outputPaddingParameters = nextLayer.ell_inputPaddingParameters,
            !.ell_outputShape =
                get_adjusted_shape(layer.output_shape, nextLayer.ell_inputPaddingParameters),
            !.ell_outputShapeMinusPadding = get_shape(layer.output_shape)]
    ELSE [self EXCEPT
            !.ell_outputPaddingParameters = NoPadding,
            !.ell_outputShape = get_adjusted_shape(layer.output_shape, NoPadding),
            !.ell_outputShapeMinusPadding =
                get_adjusted_shape(layer.output_shape, NoPadding)]

LayerParameters(inputShape, inputPadding, outputShape, outputPadding) ==
    [inputShape |-> inputShape, inputPaddingParameters |-> inputPadding,
     outputShape |-> outputShape, outputPaddingParameters |-> outputPadding]

\* an ELL layer: its kind, its LayerParameters and the kind's own parameters
EllLayer(kind, layerParameters, type, size, stride) ==
    [kind |-> kind, layerParameters |-> layerParameters, type |-> type,
     size |-> size, stride |-> stride]

firstLayerParameters(self) ==
    LayerParameters(self.ell_inputShape, self.ell_inputPaddingParameters,
                    self.ell_outputShapeMinusPadding, NoPadding)

middleLayerParameters(self) ==
    LayerParameters(self.ell_outputShapeMinusPadding, NoPadding,
                    self.ell_outputShapeMinusPadding, NoPadding)

lastLayerParameters_InputPadded(self) ==
    LayerParameters(self.ell_outputShapeMinusPadding, self.ell_inputPaddingParameters,
                    self.ell_outputShape, self.ell_outputPaddingParameters)

lastLayerParameters(self) ==
    LayerParameters(self.ell_outputShapeMinusPadding, NoPadding,
                    self.ell_outputShape, self.ell_outputPaddingParameters)

wholeLayerParameters(self) ==
    LayerParameters(self.ell_inputShape, self.ell_inputPaddingParameters,
                    self.ell_outputShape, self.ell_outputPaddingParameters)

\* utilities.is_softmax_activation / get_activation_type on the block's nodes
is_softmax_activation(layer) == layer.softmax

get_activation_type(layer) == layer.activation

\* variant: a detected activation type takes priority over the softmax
DenseLayer_process_ActivationFirst(self, layer, ellLayers) ==
    LET activationType == get_activation_type(layer)
        l1 == Append(ellLayers,
                EllLayer("FullyConnected", firstLayerParameters(self), None, 0, 0))
        l2 == Append(l1,
                EllLayer("Bias",
                    IF is_softmax_activation(layer) \/ activationType # None
                    THEN middleLayerParameters(self) ELSE lastLayerParameters(self),
                    None, 0, 0))
    IN  IF activationType # None
        THEN Append(l2, EllLayer("Activation", lastLayerParameters(self),
                                 activationType, 0, 0))
        ELSE IF is_softmax_activation(layer)
        THEN Append(l2, EllLayer("Softmax", lastLayerParameters(self), None, 0, 0))
        ELSE l2

DenseLayer_process(self, layer, ellLayers) ==
    LET activationType == get_activation_type(layer)
        l1 == Append(ellLayers,
                EllLayer("FullyConnected", firstLayerParameters(self), None, 0, 0))
        l2 == Append(l1,
                EllLayer("Bias",
                    IF is_softmax_activation(layer) \/ activationType # None
                    THEN middleLayerParameters(self) ELSE lastLayerParameters(self),
                    None, 0, 0))
    IN  IF is_softmax_activation(layer) \/ activationType # None
        THEN IF is_softmax_activation(layer)
             THEN Append(l2, EllLayer("Softmax", lastLayerParameters(self), None, 0, 0))
             ELSE IF activationType # None
                  THEN Append(l2, EllLayer("Activation", lastLayerParameters(self),
                                           activationType, 0, 0))
                  ELSE l2
        ELSE l2

BinaryConvolutionLayer_process(self, layer, ellLayers) ==
    Append(ellLayers,
        EllLayer("BinaryConvolution", wholeLayerParameters(self), "bitwise",
                 self.receptiveField, self.attributes.strides[3]))

\* variant: the convolution itself already carries the wrapper's output
\* shape and padding
ConvolutionLayer_process_FirstWhole(self, layer, ellLayers) ==
    LET activationType == get_activation_type(layer)
        isSoftmaxActivation == is_softmax_activation(layer)
        hasActivation == isSoftmaxActivation \/ activationType # None
        l1 == Append(ellLayers,
                EllLayer("Convolution", wholeLayerParameters(self), None,
                         self.receptiveField, self.attributes.strides[3]))
        l2 == Append(l1,
                EllLayer("Bias",
                    IF hasActivation THEN middleLayerParameters(self)
                    ELSE lastLayerParameters(self), None, 0, 0))
    IN  IF hasActivation
        THEN IF isSoftmaxActivation
             THEN Append(l2, EllLayer("Softmax", lastLayerParameters(self), None, 0, 0))
             ELSE Append(l2, EllLayer("Activation", lastLayerParameters(self),
                                      activationType, 0, 0))
        ELSE l2

ConvolutionLayer_process(self, layer, ellLayers) ==
    LET activationType == get_activation_type(layer)
        isSoftmaxActivation == is_softmax_activation(layer)
        hasActivation == isSoftmaxActivation \/ activationType # None
        l1 == Append(ellLayers,
                EllLayer("Convolution", firstLayerParameters(self), None,
                         self.receptiveField, self.attributes.strides[3]))
        l2 == Append(l1,
                EllLayer("Bias",
                    IF hasActivation THEN middleLayerParameters(self)
                    ELSE lastLayerParameters(self), None, 0, 0))
    IN  IF hasActivation
        THEN IF isSoftmaxActivation
             THEN Append(l2, EllLayer("Softmax", lastLayerParameters(self), None, 0, 0))
             ELSE Append(l2, EllLayer("Activation", lastLayerParameters(self),
                                      activationType, 0, 0))
        ELSE l2

\* variant: a block with an activation and a softmax gets both layers
LinearLayer_process_Both(self, layer, ellLayers) ==
    LET activationType == get_activation_type(layer)
        isSoftmaxActivation == is_softmax_activation(layer)
        hasActivation == isSoftmaxActivation \/ activationType # None
        l1 == Append(ellLayers,
                EllLayer("FullyConnected", firstLayerParameters(self), None, 0, 0))
        l2 == Append(l1,
                EllLayer("Bias",
                    IF hasActivation THEN middleLayerParameters(self)
                    ELSE lastLayerParameters(self), None, 0, 0))
        l3 == IF activationType # None
              THEN Append(l2, EllLayer("Activation", middleLayerParameters(self),
                                       activationType, 0, 0))
              ELSE l2
    IN  IF isSoftmaxActivation
        THEN Append(l3, EllLayer("Softmax", lastLayerParameters(self), None, 0, 0))
        ELSE l3

LinearLayer_process(self, layer, ellLayers) ==
    LET activationType == get_activation_type(layer)
        isSoftmaxActivation == is_softmax_activation(layer)
        hasActivation == isSoftmaxActivation \/ activationType # None
        l1 == Append(ellLayers,
                EllLayer("FullyConnected", firstLayerParameters(self), None, 0, 0))
        l2 == Append(l1,
                EllLayer("Bias",
                    IF hasActivation THEN middleLayerParameters(self)
                    ELSE lastLayerParameters(self), None, 0, 0))
    IN  IF hasActivation
        THEN IF isSoftmaxActivation
             THEN Append(l2, EllLayer("Softmax", lastLayerParameters(self), None, 0, 0))
             ELSE Append(l2, EllLayer("Activation", lastLayerParameters(self),
                                      activationType, 0, 0))
        ELSE l2

ElementTimesLayer_process(self, layer, ellLayers) ==
    Append(ellLayers, EllLayer("Scaling", wholeLayerParameters(self), None, 0, 0))

\* variant: the pooling layer is built but never appended
BasePoolingLayer_process_NoAppend(self, layer, ellLayers) ==
    ellLayers

BasePoolingLayer_process(self, layer, ellLayers) ==
    Append(ellLayers,
        EllLayer("Pooling", wholeLayerParameters(self), self.pooling_type,
                 self.attributes.poolingWindowShape[1], self.attributes.strides[1]))

\* self.actual_layer.process(ellLayers)
PoolingLayer_process(self, layer, ellLayers) ==
    BasePoolingLayer_process(self, layer, ellLayers)

\* variant: the activation layer is inserted at the front of the list
ReLULayer_process_Prepend(self, layer, ellLayers) ==
    <<EllLayer("Activation", wholeLayerParameters(self), "relu", 0, 0)>> \o ellLayers

ReLULayer_process(self, layer, ellLayers) ==
    Append(ellLayers, EllLayer("Activation", wholeLayerParameters(self), "relu", 0, 0))

LeakyReLULayer_process(self, layer, ellLayers) ==
    Append(ellLayers, EllLayer("Activation", wholeLayerParameters(self), "leaky", 0, 0))

PReLULayer_process(self, layer, ellLayers) ==
    Append(ellLayers, EllLayer("PReLUActivation", wholeLayerParameters(self), None, 0, 0))

SoftmaxLayer_process(self, layer, ellLayers) ==
    IF layer.op_name = "CrossEntropyWithSoftmax"
    THEN Append(ellLayers,
            EllLayer("Softmax",
                LayerParameters(self.ell_inputShape, self.ell_inputPaddingParameters,
                                self.ell_inputShape, self.ell_inputPaddingParameters),
                None, 0, 0))
    ELSE Append(ellLayers, EllLayer("Softmax", wholeLayerParameters(self), None, 0, 0))

BatchNormalizationLayer_process(self, layer, ellLayers) ==
    LET l1 == Append(ellLayers,
                EllLayer("BatchNormalization", firstLayerParameters(self), None, 0, 0))
        l2 == Append(l1, EllLayer("Scaling", middleLayerParameters(self), None, 0, 0))
    IN  Append(l2, EllLayer("Bias", lastLayerParameters(self), None, 0, 0))

BiasLayer_process(self, layer, ellLayers) ==
    Append(ellLayers, EllLayer("Bias", wholeLayerParameters(self), None, 0, 0))

NegativeBiasLayer_process(self, layer, ellLayers) ==
    Append(ellLayers, EllLayer("Bias", wholeLayerParameters(self), "negated", 0, 0))

\* method resolution of layerObject.process(ellLayers)
process(self, layer, ellLayers) ==
    CASE self.class = "DenseLayer" -> DenseLayer_process(self, layer, ellLayers)
      [] self.class = "BinaryConvolutionLayer" ->
            BinaryConvolutionLayer_process(self, layer, ellLayers)
      [] self.class = "ConvolutionLayer" -> ConvolutionLayer_process(self, layer, ellLayers)
      [] self.class = "LinearLayer" -> LinearLayer_process(self, layer, ellLayers)
      [] self.class = "ElementTimesLayer" ->
            ElementTimesLayer_process(self, layer, ellLayers)
      [] self.class \in {"MaxPoolingLayer", "AveragePoolingLayer"} ->
            BasePoolingLayer_process(self, layer, ellLayers)
      [] self.class = "PoolingLayer" -> PoolingLayer_process(self, layer, ellLayers)
      [] self.class = "ReLULayer" -> ReLULayer_process(self, layer, ellLayers)
      [] self.class = "LeakyReLULayer" -> LeakyReLULayer_process(self, layer, ellLayers)
      [] self.class = "PReLULayer" -> PReLULayer_process(self, layer, ellLayers)
      [] self.class = "SoftmaxLayer" -> SoftmaxLayer_process(self, layer, ellLayers)
      [] self.class = "BatchNormalizationLayer" ->
            BatchNormalizationLayer_process(self, layer, ellLayers)
      [] self.class = "BiasLayer" -> BiasLayer_process(self, layer, ellLayers)
      [] self.class = "NegativeBiasLayer" ->
            NegativeBiasLayer_process(self, layer, ellLayers)

(***************************************************************************)
(* The pipeline: get_filtered_layers_list(modelLayers, maxLayerCount),     *)
(* then convert_cntk_layers_to_ell_layers on the list it returns.          *)
(***************************************************************************)
VARIABLES
    modelLayers,       \* the node sequence given to get_filtered_layers_list
    maxLayerCount,     \* <<>> for None, <<k>> for the count k
    pc,                \* "filter", "characteristics", "convert", "done", "raised"
    i,                 \* index of the loop the pipeline is in
    relevantLayers,    \* the wrapper list
    lastSoftmaxLayer,  \* the remembered trailing Softmax wrapper, NoObject if None
    ellLayers,         \* the primitive list of convert_cntk_layers_to_ell_layers
    raised,            \* the exception that ended the conversion, None if none
    factoryCalls       \* positions of the nodes given to get_layer_object so far

vars == <<modelLayers, maxLayerCount, pc, i, relevantLayers, lastSoftmaxLayer,
          ellLayers, raised, factoryCalls>>

SeqsUpTo(S, n) == UNION {[1..k -> S] : k \in 0..n}

\* nodes the node sequences are built from
CoreNodes ==
    {BaseNode,
     [BaseNode EXCEPT !.op_name = "MaxPooling", !.output_shape = ShapeB,
        !.attributes = Attributes(TRUE, <<TRUE, TRUE>>, <<0, 0>>, <<3, 3>>, "max")],
     [BaseNode EXCEPT !.op_name = "Convolution", !.is_block = TRUE,
        !.inputs = <<ShapeA, <<3, 2, 3, 3>>>>, !.parameters = <<18, 3>>,
        !.output_shape = ShapeB, !.receptiveField = MaxReceptiveField,
        !.activation = "relu",
        !.inner_attributes = Attributes(TRUE, <<TRUE, TRUE>>, <<0, 0>>, <<1, 1>>, "none")],
     [BaseNode EXCEPT !.op_name = "Dense", !.is_block = TRUE, !.parameters = <<8, 2>>,
        !.output_shape = ShapeB],
     [BaseNode EXCEPT !.op_name = "CrossEntropyWithSoftmax", !.output_shape = ShapeC],
     [BaseNode EXCEPT !.op_name = "Minus", !.constants = <<1>>],
     [BaseNode EXCEPT !.op_name = "Minus"],
     [BaseNode EXCEPT !.op_name = "Pooling", !.output_shape = ShapeB,
        !.attributes = Attributes(TRUE, <<TRUE, TRUE>>, <<0, 0>>, <<3, 3>>, "max")]}

Init ==
    /\ modelLayers \in SeqsUpTo(CoreNodes, MaxNodes) \cup {<<n>> : n \in AllNodes}
    /\ maxLayerCount \in {<<>>} \cup {<<k>> : k \in 0..MaxNodes}
    /\ pc = "filter"
    /\ i = 1
    /\ relevantLayers = <<>>
    /\ lastSoftmaxLayer = NoObject
    /\ ellLayers = <<>>
    /\ raised = None
    /\ factoryCalls = {}

\* lines 823-829: the remembered Softmax is appended, then the list is cut
InsertAndTruncate_Front(layers, lastSoftmax, maxCount) ==
    LET inserted == IF lastSoftmax # NoObject THEN <<lastSoftmax>> \o layers
                    ELSE layers
        Min(a, b) == IF a < b THEN a ELSE b
    IN  IF maxCount # <<>>
        THEN SubSeq(inserted, 1, Min(maxCount[1], Len(inserted)))
        ELSE inserted

InsertAndTruncate(layers, lastSoftmax, maxCount) ==
    LET inserted == IF lastSoftmax # NoObject THEN Append(layers, lastSoftmax)
                    ELSE layers
        Min(a, b) == IF a < b THEN a ELSE b
    IN  IF maxCount # <<>>
        THEN SubSeq(inserted, 1, Min(maxCount[1], Len(inserted)))
        ELSE inserted

\* one iteration of the loop over modelLayers
FilterStep ==
    /\ pc = "filter"
    /\ i <= Len(modelLayers)
    /\ LET currentLayer == modelLayers[i]
           layerObject == get_layer_object(currentLayer, i)
           softmax == SoftmaxLayer_init(currentLayer, i)
       IN  IF currentLayer.is_function /\ has_inputs(currentLayer)
           THEN CASE layerObject.kind = "raise" ->
                       /\ pc' = "raised"
                       /\ raised' = layerObject.exc
                       /\ UNCHANGED <<i, relevantLayers, lastSoftmaxLayer>>
                  [] layerObject.kind = "object" ->
                       /\ relevantLayers' = Append(relevantLayers, layerObject.obj)
                       /\ i' = i + 1
                       /\ UNCHANGED <<pc, raised, lastSoftmaxLayer>>
                  [] layerObject.kind = "none"
                       /\ currentLayer.op_name = "CrossEntropyWithSoftmax" ->
                       IF softmax.kind = "raise"
                       THEN /\ pc' = "raised"
                            /\ raised' = softmax.exc
                            /\ UNCHANGED <<i, relevantLayers, lastSoftmaxLayer>>
                       ELSE /\ lastSoftmaxLayer' = softmax.obj
                            /\ i' = i + 1
                            /\ UNCHANGED <<pc, raised, relevantLayers>>
                  [] OTHER ->
                       /\ i' = i + 1
                       /\ UNCHANGED <<pc, raised, relevantLayers, lastSoftmaxLayer>>
           ELSE /\ i' = i + 1
                /\ UNCHANGED <<pc, raised, relevantLayers, lastSoftmaxLayer>>
    /\ factoryCalls' = IF modelLayers[i].is_function /\ has_inputs(modelLayers[i])
                       THEN factoryCalls \cup {i} ELSE factoryCalls
    /\ UNCHANGED <<modelLayers, maxLayerCount, ellLayers>>

\* after the loop: trailing Softmax and maxLayerCount
FilterEnd ==
    /\ pc = "filter"
    /\ i > Len(modelLayers)
    /\ relevantLayers' = InsertAndTruncate(relevantLayers, lastSoftmaxLayer, maxLayerCount)
    /\ pc' = "characteristics"
    /\ i' = 1
    /\ UNCHANGED <<modelLayers, maxLayerCount, lastSoftmaxLayer, ellLayers, raised,
                   factoryCalls>>

\* one iteration of the loop that sets the output characteristics
CharacteristicsStep ==
    /\ pc = "characteristics"
    /\ i <= Len(relevantLayers)
    /\ LET currentLayer == relevantLayers[i]
           hasNext == i < Len(relevantLayers)
           nextLayer == IF hasNext THEN relevantLayers[i + 1] ELSE NoObject
       IN  relevantLayers' =
             [relevantLayers EXCEPT ![i] =
                set_output_characteristics(currentLayer, modelLayers[currentLayer.idx],
                                           hasNext, nextLayer)]
    /\ i' = i + 1
    /\ UNCHANGED <<modelLayers, maxLayerCount, pc, lastSoftmaxLayer, ellLayers, raised,
                   factoryCalls>>

\* get_filtered_layers_list returns; its list is given to
\* convert_cntk_layers_to_ell_layers
ReturnLayers ==
    /\ pc = "characteristics"
    /\ i > Len(relevantLayers)
    /\ pc' = "convert"
    /\ i' = 1
    /\ ellLayers' = <<>>
    /\ UNCHANGED <<modelLayers, maxLayerCount, relevantLayers, lastSoftmaxLayer, raised,
                   factoryCalls>>

\* one iteration of the loop of convert_cntk_layers_to_ell_layers
ConvertStep ==
    /\ pc = "convert"
    /\ i <= Len(relevantLayers)
    /\ LET layerObject == relevantLayers[i]
       IN  ellLayers' = process(layerObject, modelLayers[layerObject.idx], ellLayers)
    /\ i' = i + 1
    /\ UNCHANGED <<modelLayers, maxLayerCount, pc, relevantLayers, lastSoftmaxLayer,
                   raised, factoryCalls>>

ConvertReturn ==
    /\ pc = "convert"
    /\ i > Len(relevantLayers)
    /\ pc' = "done"
    /\ UNCHANGED <<modelLayers, maxLayerCount, i, relevantLayers, lastSoftmaxLayer,
                   ellLayers, raised, factoryCalls>>

Next ==
    \/ FilterStep
    \/ FilterEnd
    \/ CharacteristicsStep
    \/ ReturnLayers
    \/ ConvertStep
    \/ ConvertReturn

Spec == Init /\ [][Next]_vars

(***************************************************************************)
(* Properties.                                                             *)
(***************************************************************************)
\* get_filtered_layers_list has returned its list
Returned == pc \in {"convert", "done"}

NodeOf(w) == modelLayers[w.idx]

Positions == 1..Len(modelLayers)

Last(seq) == seq[Len(seq)]

\* the nodes the first loop hands to the factory
Offered(k) == modelLayers[k].is_function /\ has_inputs(modelLayers[k])

\* the positions whose node the factory classifies into a wrapper
Classified == {k \in Positions : Offered(k) /\ get_layer_object(modelLayers[k], k).kind = "object"}

\* the positions of CrossEntropyWithSoftmax nodes with inputs
CrossEntropies == {k \in Positions : Offered(k)
                                     /\ modelLayers[k].op_name = "CrossEntropyWithSoftmax"}

Smaller(a, b) == IF a < b THEN a ELSE b

\* a shape with 2 * size added to rows and columns
Padded(shape, size) ==
    [rows |-> shape[2] + 2 * size, columns |-> shape[3] + 2 * size, channels |-> shape[1]]

Kinds(layers) == [k \in 1..Len(layers) |-> layers[k].kind]

\* C1: maxLayerCount cuts only the factory-classified wrappers, and the
\* remembered trailing Softmax is appended after the cut: whenever a
\* CrossEntropyWithSoftmax node with inputs was seen, the returned list ends
\* with its Softmax wrapper.
C1_TrailingSoftmaxSurvivesTruncation ==
    (Returned /\ CrossEntropies # {}) =>
        /\ Len(relevantLayers) > 0
        /\ Last(relevantLayers).class = "SoftmaxLayer"
        /\ Last(relevantLayers).idx \in CrossEntropies
        /\ Len(relevantLayers) =
             1 + (IF maxLayerCount = <<>> THEN Cardinality(Classified)
                  ELSE Smaller(maxLayerCount[1], Cardinality(Classified)))

\* C2: in the returned list every wrapper with a successor has the successor's
\* input padding as its output padding, the raw output shape padded by it as
\* its output shape, and the unpadded raw output shape as
\* output_shape_minus_padding.
C2_AdjacentPadding ==
    Returned =>
        \A k \in 1..(Len(relevantLayers) - 1) :
            LET w == relevantLayers[k]
                next == relevantLayers[k + 1]
            IN  /\ w.ell_outputPaddingParameters = next.ell_inputPaddingParameters
                /\ w.ell_outputShape =
                     Padded(NodeOf(w).output_shape,
                            next.ell_inputPaddingParameters.paddingSize)
                /\ w.ell_outputShapeMinusPadding = Padded(NodeOf(w).output_shape, 0)

\* a returned list cut to three wrappers, the last the trailing Softmax
C2_Witness ==
    /\ pc = "done"
    /\ maxLayerCount = <<3>>
    /\ Len(relevantLayers) = 3
    /\ relevantLayers[1].ell_outputPaddingParameters = PaddingParameters("min", 1)
    /\ relevantLayers[2].ell_outputPaddingParameters = PaddingParameters("zeros", 0)
    /\ relevantLayers[3].class = "SoftmaxLayer"
    /\ NodeOf(relevantLayers[3]).op_name = "CrossEntropyWithSoftmax"

\* C3: the last wrapper of a non-empty returned list has padding none of size 0
\* on its output, and its output shape and output_shape_minus_padding are its
\* unpadded raw output shape, with or without truncation.
C3_TerminalWrapper ==
    (Returned /\ Len(relevantLayers) > 0) =>
        LET w == Last(relevantLayers)
        IN  /\ w.ell_outputPaddingParameters.paddingScheme = "none"
            /\ w.ell_outputPaddingParameters.paddingSize = 0
            /\ w.ell_outputShape = Padded(NodeOf(w).output_shape, 0)
            /\ w.ell_outputShapeMinusPadding = Padded(NodeOf(w).output_shape, 0)

\* a truncated list whose last wrapper pads its input and whose dropped
\* successor asked for padding too
C3_Witness ==
    /\ pc = "done"
    /\ maxLayerCount = <<1>>
    /\ Cardinality(Classified) = 2
    /\ Len(relevantLayers) = 1
    /\ relevantLayers[1].class = "MaxPoolingLayer"
    /\ relevantLayers[1].ell_inputPaddingParameters.paddingSize > 0
    /\ \E k \in Classified :
          get_layer_object(modelLayers[k], k).obj.ell_inputPaddingParameters.paddingSize = 2

\* C4: each DenseLayer.process call appends FullyConnected, Bias when the block
\* has neither activation nor softmax; FullyConnected, Bias, Activation when it
\* has a non-softmax activation; FullyConnected, Bias, Softmax when it contains
\* a softmax.
C4_DenseEmits ==
    [][(pc = "convert" /\ i <= Len(relevantLayers)
          /\ relevantLayers[i].class = "DenseLayer" /\ i' = i + 1) =>
         LET n == NodeOf(relevantLayers[i])
             added == SubSeq(ellLayers', Len(ellLayers) + 1, Len(ellLayers'))
         IN  /\ SubSeq(ellLayers', 1, Len(ellLayers)) = ellLayers
             /\ Kinds(added) =
                  IF n.softmax THEN <<"FullyConnected", "Bias", "Softmax">>
                  ELSE IF n.activation # None
                       THEN <<"FullyConnected", "Bias", "Activation">>
                       ELSE <<"FullyConnected", "Bias">>
             /\ (~n.softmax /\ n.activation # None) => added[3].type = n.activation]_vars

C4_Witness ==
    /\ pc = "done"
    /\ Len(relevantLayers) = 1
    /\ relevantLayers[1].class = "DenseLayer"
    /\ NodeOf(relevantLayers[1]).softmax
    /\ NodeOf(relevantLayers[1]).activation = "relu"
    /\ Kinds(ellLayers) = <<"FullyConnected", "Bias", "Softmax">>

\* C5: every Minus node with inputs whose output name is not
\* "mean_removed_input", whatever its number of constants, is skipped: the
\* factory catches its classification error, the conversion goes on, and no
\* wrapper (so no primitive) is made for it.
C5_OtherMinusIsSkipped ==
    \A k \in Positions :
        (Offered(k) /\ modelLayers[k].op_name = "Minus"
           /\ modelLayers[k].output_name # "mean_removed_input") =>
            /\ ~(pc = "raised" /\ i = k)
            /\ \A j \in 1..Len(relevantLayers) : relevantLayers[j].idx # k

\* a violation of the structural precondition of the variant the factory
\* selects for the node
StructuralViolation(n) ==
    \/ n.op_name = "Dense" /\ ~n.is_block
    \/ n.op_name = "Convolution" /\ ~n.is_block
         /\ (Len(n.inputs) # 2 \/ n.owner_name # "Sign")
    \/ n.op_name = "Convolution" /\ n.is_block /\ Len(n.arguments) = 0
    \/ n.op_name = "ElementTimes" /\ Len(n.parameters) + Len(n.constants) # 1
    \/ n.op_name = "Plus" /\ Len(n.parameters) # 1
    \/ n.op_name = "Minus" /\ (Len(n.constants) # 1 \/ n.constants[1] # 1)

\* C6: a violation of the selected variant's structural precondition never
\* propagates out of get_layer_object: the call returns no wrapper and the
\* first loop goes on to the next node.
C6_ViolationNeverPropagates ==
    \A k \in Positions :
        (Offered(k) /\ StructuralViolation(modelLayers[k])) =>
            ~(pc = "raised" /\ i = k)

\* C7: a Pooling node with inputs and valid pooling attributes is classified
\* into a Pooling wrapper, not skipped, whose padding scheme and pooling type
\* are those of its poolingType attribute: min-value-fill and max for max,
\* zero-fill and mean for average.
C7_PoolingIsClassified ==
    (Returned /\ maxLayerCount = <<>>) =>
        \A k \in Positions :
            (Offered(k) /\ modelLayers[k].op_name = "Pooling") =>
                \E j \in 1..Len(relevantLayers) :
                    LET w == relevantLayers[j]
                        pt == (IF modelLayers[k].is_block
                               THEN modelLayers[k].inner_attributes
                               ELSE modelLayers[k].attributes).poolingType
                    IN  /\ w.idx = k
                        /\ w.class = "PoolingLayer"
                        /\ w.ell_inputPaddingParameters.paddingScheme =
                             (IF pt = "max" THEN "min" ELSE "zeros")
                        /\ w.pooling_type = (IF pt = "max" THEN "max" ELSE "mean")

\* C8: convert_cntk_layers_to_ell_layers returns at least as many primitive
\* layers as the wrapper list has wrappers; after each process call the list
\* holds at least one primitive per wrapper processed.
C8_AtLeastOnePerWrapper ==
    /\ pc = "convert" => Len(ellLayers) >= i - 1
    /\ pc = "done" => Len(ellLayers) >= Len(relevantLayers)

C8_Witness ==
    /\ pc = "done"
    /\ Len(relevantLayers) = 3
    /\ Len(ellLayers) > 3
    /\ \E k \in 1..3 : relevantLayers[k].class = "MaxPoolingLayer"

\* the entries of autoPadding that belong to the two spatial dimensions
SpatialAutoPadding(at) ==
    {at.autoPadding[k] : k \in (Len(at.autoPadding) - 1)..Len(at.autoPadding)}

\* C9: a Convolution block with receptive field r >= 1 has zero-fill input
\* padding of size floor((r - 1) / 2) when it declares auto-padding for the
\* spatial dimensions, and of its explicit upper-pad value when auto-padding
\* is declared false or the autoPadding attribute is absent.
C9_ConvolutionPadding ==
    \A k \in 1..Len(relevantLayers) :
        LET w == relevantLayers[k]
            at == NodeOf(w).inner_attributes
            r == NodeOf(w).receptiveField
            pad == w.ell_inputPaddingParameters
        IN  (w.class = "ConvolutionLayer" /\ r >= 1) =>
              /\ pad.paddingScheme = "zeros"
              /\ (at.hasAutoPadding /\ SpatialAutoPadding(at) = {TRUE}) =>
                    pad.paddingSize = (r - 1) \div 2
              /\ (~at.hasAutoPadding \/ SpatialAutoPadding(at) = {FALSE}) =>
                    pad.paddingSize = at.upperPad[1]

C9_Witness ==
    \E k \in 1..Len(relevantLayers) :
        LET w == relevantLayers[k]
            at == NodeOf(w).inner_attributes
        IN  /\ w.class = "ConvolutionLayer"
            /\ at.hasAutoPadding
            /\ at.autoPadding = <<FALSE, TRUE, TRUE>>
            /\ NodeOf(w).receptiveField = 4
            /\ at.upperPad = <<MaxUpperPad, MaxUpperPad>>
            /\ w.ell_inputPaddingParameters.paddingSize = 1

\* the primitive group a wrapper emits into an empty list
Group(w) == process(w, NodeOf(w), <<>>)

RECURSIVE Concatenation(_)
\* the groups of the first k wrappers, in list order
Concatenation(k) ==
    IF k = 0 THEN <<>> ELSE Concatenation(k - 1) \o Group(relevantLayers[k])

\* C10: the primitive list is the concatenation, in wrapper-list order, of the
\* group each wrapper emits: every process call keeps what was appended before
\* as a prefix and process runs once per wrapper, in order.
C10_ConcatenationInOrder ==
    /\ pc = "convert" => ellLayers = Concatenation(i - 1)
    /\ pc = "done" => ellLayers = Concatenation(Len(relevantLayers))

C10_Witness ==
    /\ pc = "done"
    /\ Len(relevantLayers) = 3
    /\ relevantLayers[1].class = "ConvolutionLayer"
    /\ relevantLayers[2].class = "ReLULayer"
    /\ relevantLayers[3].class = "DenseLayer"
    /\ Kinds(ellLayers) =
         <<"Convolution", "Bias", "Activation", "Activation", "FullyConnected", "Bias">>

\* the primitives the process call of this step appends
Added == SubSeq(ellLayers', Len(ellLayers) + 1, Len(ellLayers'))

\* this step is the process call of a wrapper of one of the classes
ProcessOf(classes) ==
    /\ pc = "convert"
    /\ i <= Len(relevantLayers)
    /\ relevantLayers[i].class \in classes
    /\ i' = i + 1

NonePadding == [paddingScheme |-> "none", paddingSize |-> 0]

\* C11: in the group a Dense, linear, Convolution-block or BatchNormalization
\* wrapper emits, the first primitive takes the wrapper's input shape and
\* padding to the unpadded output shape with none padding, every later
\* primitive has the unpadded output shape and none padding as its input, and
\* only the last primitive (the Bias in a group of two) carries the wrapper's
\* resolved output shape and output padding.
C11_FusedGroupLayering ==
    [][ProcessOf({"DenseLayer", "LinearLayer", "ConvolutionLayer",
                  "BatchNormalizationLayer"}) =>
         LET w == relevantLayers[i]
             unpadded == Padded(NodeOf(w).output_shape, 0)
             n == Len(Added)
         IN  /\ n \in {2, 3}
             /\ Added[1].layerParameters.inputShape = w.ell_inputShape
             /\ Added[1].layerParameters.inputPaddingParameters =
                  w.ell_inputPaddingParameters
             /\ \A k \in 2..n :
                  /\ Added[k].layerParameters.inputShape = unpadded
                  /\ Added[k].layerParameters.inputPaddingParameters = NonePadding
             /\ \A k \in 1..(n - 1) :
                  /\ Added[k].layerParameters.outputShape = unpadded
                  /\ Added[k].layerParameters.outputPaddingParameters = NonePadding
             /\ Added[n].layerParameters.outputShape = w.ell_outputShape
             /\ Added[n].layerParameters.outputPaddingParameters =
                  w.ell_outputPaddingParameters
             /\ n = 2 => Added[2].kind = "Bias"]_vars

\* a Convolution block followed by a MaxPooling that asks for padding
C11_Witness ==
    /\ pc = "done"
    /\ Len(relevantLayers) >= 2
    /\ relevantLayers[1].class = "ConvolutionLayer"
    /\ relevantLayers[1].ell_outputPaddingParameters = PaddingParameters("min", 1)
    /\ Kinds(SubSeq(ellLayers, 1, 3)) = <<"Convolution", "Bias", "Activation">>
    /\ ellLayers[1].layerParameters.outputPaddingParameters = NonePadding
    /\ ellLayers[3].layerParameters.outputPaddingParameters = PaddingParameters("min", 1)

Count(kinds, kind) == Cardinality({k \in 1..Len(kinds) : kinds[k] = kind})

\* C12: in the Dense, linear and Convolution-block wrappers a softmax in the
\* block makes the third primitive a Softmax and no Activation is emitted,
\* whether or not an activation is detected too; exactly one of Softmax and
\* Activation is emitted when either is present, none when neither is.
C12_SoftmaxPriority ==
    [][ProcessOf({"DenseLayer", "LinearLayer", "ConvolutionLayer"}) =>
         LET n == NodeOf(relevantLayers[i])
             kinds == Kinds(Added)
             both == Count(kinds, "Softmax") + Count(kinds, "Activation")
         IN  /\ n.softmax =>
                  /\ Len(kinds) = 3
                  /\ kinds[3] = "Softmax"
                  /\ Count(kinds, "Activation") = 0
             /\ (n.softmax \/ n.activation # None) => both = 1
             /\ (~n.softmax /\ n.activation = None) => both = 0]_vars

C12_Witness ==
    /\ pc = "done"
    /\ Len(relevantLayers) = 1
    /\ relevantLayers[1].class = "LinearLayer"
    /\ NodeOf(relevantLayers[1]).softmax
    /\ NodeOf(relevantLayers[1]).activation = "leaky"
    /\ Kinds(ellLayers) = <<"FullyConnected", "Bias", "Softmax">>

\* the first loop has dealt with the node at position k
Filtered(k) == /\ k \in Positions
               /\ pc = "filter" => k < i
               /\ pc = "raised" => k <= i

\* the wrapper list of the first loop holds a wrapper of the node at position k
\* (asked before the list is cut)
HasWrapper(k) == \E j \in 1..Len(relevantLayers) : relevantLayers[j].idx = k

WrapperAt(k) == relevantLayers[CHOOSE j \in 1..Len(relevantLayers) : relevantLayers[j].idx = k]

\* C13: an ElementTimes node becomes a Scaling wrapper only when its
\* parameters and constants together hold exactly one entry, which is the
\* scale used; with any other total the node fails classification and is
\* skipped.
C13_ElementTimesExactlyOne ==
    \A k \in Positions :
        (pc = "filter" /\ k < i /\ Offered(k)
           /\ modelLayers[k].op_name = "ElementTimes") =>
            LET n == modelLayers[k]
                total == Len(n.parameters) + Len(n.constants)
            IN  /\ total = 1 =>
                     /\ HasWrapper(k)
                     /\ WrapperAt(k).class = "ElementTimesLayer"
                     /\ WrapperAt(k).scale =
                          (IF Len(n.constants) = 1 THEN "constants[0]" ELSE "parameters[0]")
                /\ total # 1 => ~HasWrapper(k)

\* C14: a Minus node becomes a Negative-Bias wrapper only when it has exactly
\* one constant, of size 1, and its output name is "mean_removed_input"; a
\* Minus node that breaks any of the three gets no wrapper.
C14_MinusThreeConditions ==
    \A k \in Positions :
        (pc = "filter" /\ k < i /\ Offered(k) /\ modelLayers[k].op_name = "Minus") =>
            LET n == modelLayers[k]
                valid == /\ Len(n.constants) = 1
                         /\ n.constants[1] = 1
                         /\ n.output_name = "mean_removed_input"
            IN  HasWrapper(k) <=> valid

\* some argument of the node, at any position, has a non-empty shape
AnyArgumentShaped(n) == \E a \in 1..Len(n.arguments) : Len(n.arguments[a]) > 0

\* the first argument of the node exists and has a non-empty shape
FirstArgumentShaped(n) == Len(n.arguments) > 0 /\ Len(n.arguments[1]) > 0

\* the node at position k has no wrapper and is not the remembered Softmax
Dropped(k) ==
    /\ \A j \in 1..Len(relevantLayers) : relevantLayers[j].idx # k
    /\ lastSoftmaxLayer # NoObject => lastSoftmaxLayer.idx # k
    /\ ~(pc = "raised" /\ i = k)

\* C15 as stated: a node that is not a Convolution is handed to the factory
\* exactly when some argument, at any position, has a non-empty shape, and a
\* node that is not handed over has no wrapper and is not remembered as the
\* trailing Softmax.
C15_AnyArgumentCounts ==
    \A k \in Positions :
        (Filtered(k) /\ modelLayers[k].is_function
           /\ modelLayers[k].op_name # "Convolution") =>
            /\ k \in factoryCalls <=> AnyArgumentShaped(modelLayers[k])
            /\ k \notin factoryCalls => Dropped(k)

\* C15 amended: a node that is not a Convolution is handed to the factory
\* exactly when its first argument exists and has a non-empty shape, whatever
\* the shapes of the later arguments; a node that is not handed over has no
\* wrapper and is not remembered as the trailing Softmax.
C15_FirstArgumentCounts ==
    \A k \in Positions :
        (Filtered(k) /\ modelLayers[k].is_function
           /\ modelLayers[k].op_name # "Convolution") =>
            /\ k \in factoryCalls <=> FirstArgumentShaped(modelLayers[k])
            /\ has_inputs(modelLayers[k]) <=> FirstArgumentShaped(modelLayers[k])
            /\ ~FirstArgumentShaped(modelLayers[k]) => Dropped(k)

C15_Witness ==
    /\ pc = "done"
    /\ Len(modelLayers) = 1
    /\ modelLayers[1].is_function
    /\ modelLayers[1].op_name = "CrossEntropyWithSoftmax"
    /\ modelLayers[1].arguments = <<EmptyShape, ShapeA>>
    /\ factoryCalls = {}
    /\ relevantLayers = <<>>
    /\ lastSoftmaxLayer = NoObject

RECURSIVE Ascending(_)
\* the members of a set of positions, in traversal order
Ascending(S) ==
    IF S = {} THEN <<>>
    ELSE LET m == CHOOSE x \in S : \A y \in S : x <= y
         IN  <<m>> \o Ascending(S \ {m})

\* the positions of the wrapped nodes, in list order
WrappedPositions == [j \in 1..Len(relevantLayers) |-> relevantLayers[j].idx]

\* C16: with no maxLayerCount the returned list is the factory-classified
\* wrappers in traversal order, followed by exactly one Softmax wrapper when
\* some CrossEntropyWithSoftmax node with inputs was seen; that wrapper wraps
\* the last such node, earlier ones have no wrapper, and it is at the end
\* wherever the node appeared.
C16_TrailingSoftmaxLastWins ==
    (pc \in {"characteristics", "convert", "done"} /\ maxLayerCount = <<>>) =>
        LET classified == Ascending(Classified)
            last == CHOOSE x \in CrossEntropies : \A y \in CrossEntropies : y <= x
        IN  /\ WrappedPositions =
                 classified \o (IF CrossEntropies = {} THEN <<>> ELSE <<last>>)
            /\ \A j \in 1..Len(classified) :
                 relevantLayers[j].class =
                     get_layer_object(modelLayers[classified[j]], classified[j]).obj.class
            /\ CrossEntropies # {} =>
                 /\ Last(relevantLayers).class = "SoftmaxLayer"
                 /\ \A k \in CrossEntropies \ {last} :
                      \A j \in 1..Len(relevantLayers) : relevantLayers[j].idx # k

C16_Witness ==
    /\ pc = "done"
    /\ maxLayerCount = <<>>
    /\ Len(modelLayers) = 3
    /\ modelLayers[1].op_name = "CrossEntropyWithSoftmax"
    /\ modelLayers[2].op_name = "ReLU"
    /\ modelLayers[3].op_name = "CrossEntropyWithSoftmax"
    /\ CrossEntropies = {1, 3}
    /\ Len(relevantLayers) = 2
    /\ relevantLayers[1].class = "ReLULayer"
    /\ relevantLayers[2].class = "SoftmaxLayer"
    /\ relevantLayers[2].idx = 3

\* the attributes a pooling wrapper reads: those of the block root for a block
PoolingAttributesOf(n) == IF n.is_block THEN n.inner_attributes ELSE n.attributes

\* the input padding the pooling rule gives a MaxPooling or AveragePooling node
PoolingPaddingOf(n) ==
    LET at == PoolingAttributesOf(n)
    IN  [paddingScheme |-> IF n.op_name = "MaxPooling" THEN "min" ELSE "zeros",
         paddingSize |-> IF at.hasAutoPadding /\ at.autoPadding[1] = TRUE
                         THEN (at.poolingWindowShape[1] - 1) \div 2
                         ELSE at.upperPad[1]]

\* C17: a MaxPooling node yields a wrapper with min-value input padding and
\* one Pooling primitive of type max, an AveragePooling node zero padding and
\* type mean; the padding size is floor((window - 1) / 2) under declared
\* auto-padding and the upper-pad value otherwise (also when autoPadding is
\* absent); the primitive's window size and stride are poolingWindowShape and
\* strides.
C17_PoolingRule ==
    [][ /\ (pc = "filter" /\ i <= Len(modelLayers) /\ Offered(i)
              /\ modelLayers[i].op_name \in {"MaxPooling", "AveragePooling"}) =>
            /\ Len(relevantLayers') = Len(relevantLayers) + 1
            /\ Last(relevantLayers').idx = i
            /\ Last(relevantLayers').class =
                  (IF modelLayers[i].op_name = "MaxPooling"
                   THEN "MaxPoolingLayer" ELSE "AveragePoolingLayer")
            /\ Last(relevantLayers').ell_inputPaddingParameters =
                  PoolingPaddingOf(modelLayers[i])
        /\ ProcessOf({"MaxPoolingLayer", "AveragePoolingLayer"}) =>
            LET n == NodeOf(relevantLayers[i])
                at == PoolingAttributesOf(n)
            IN  /\ n.op_name \in {"MaxPooling", "AveragePooling"}
                /\ Len(Added) = 1
                /\ Added[1].kind = "Pooling"
                /\ Added[1].type = (IF n.op_name = "MaxPooling" THEN "max" ELSE "mean")
                /\ Added[1].size = at.poolingWindowShape[1]
                /\ Added[1].stride = at.strides[1]
                /\ Added[1].layerParameters.inputPaddingParameters = PoolingPaddingOf(n)
      ]_vars

C17_Witness ==
    /\ pc = "done"
    /\ Len(modelLayers) = 1
    /\ modelLayers[1].op_name = "MaxPooling"
    /\ modelLayers[1].is_block
    /\ modelLayers[1].inner_attributes.hasAutoPadding
    /\ modelLayers[1].inner_attributes.autoPadding[1] = TRUE
    /\ modelLayers[1].inner_attributes.poolingWindowShape[1] = 2
    /\ Len(ellLayers) = 1
    /\ ellLayers[1].kind = "Pooling"
    /\ ellLayers[1].type = "max"
    /\ ellLayers[1].size = 2
    /\ ellLayers[1].layerParameters.inputPaddingParameters = PaddingParameters("min", 0)

\* C18: in the primitive list every adjacent pair agrees on padding: the
\* output padding of primitive k is the input padding of primitive k+1, inside
\* a fused group and across two wrappers; the primitive of a trailing
\* CrossEntropyWithSoftmax Softmax has its output shape and padding equal to
\* its input.
C18_PrimitivePaddingAgrees ==
    Returned =>
        /\ \A k \in 1..(Len(ellLayers) - 1) :
             ellLayers[k].layerParameters.outputPaddingParameters =
                 ellLayers[k + 1].layerParameters.inputPaddingParameters
        /\ (/\ pc = "done"
            /\ relevantLayers # <<>>
            /\ Last(relevantLayers).class = "SoftmaxLayer"
            /\ NodeOf(Last(relevantLayers)).op_name = "CrossEntropyWithSoftmax") =>
             LET p == Last(ellLayers).layerParameters
             IN  /\ Last(ellLayers).kind = "Softmax"
                 /\ p.outputPaddingParameters = p.inputPaddingParameters
                 /\ p.outputShape = p.inputShape

C18_Witness ==
    /\ pc = "done"
    /\ Len(relevantLayers) = 3
    /\ relevantLayers[1].class = "ReLULayer"
    /\ relevantLayers[2].class = "ConvolutionLayer"
    /\ relevantLayers[3].class = "SoftmaxLayer"
    /\ NodeOf(relevantLayers[3]).op_name = "CrossEntropyWithSoftmax"
    /\ Len(ellLayers) = 5
    /\ ellLayers[1].layerParameters.outputPaddingParameters = PaddingParameters("zeros", 2)
    /\ ellLayers[2].layerParameters.inputPaddingParameters = PaddingParameters("zeros", 2)
    /\ ellLayers[2].layerParameters.outputPaddingParameters = NoPadding
    /\ ellLayers[5].kind = "Softmax"

\* C19: get_filtered_layers_list never ends with the "Could not initialize
\* input_shape" RuntimeError of BaseLayer.__init__: every wrapper is built from
\* a node that passed has_inputs.
C19_NoInitializationError == raised # "RuntimeError"

C19_Witness ==
    /\ pc = "done"
    /\ raised = None
    /\ Len(relevantLayers) = 1
    /\ relevantLayers[1].class = "BinaryConvolutionLayer"
    /\ NodeOf(relevantLayers[1]).arguments = <<>>
    /\ relevantLayers[1].has_input_shape
    /\ relevantLayers[1].input_shape = ShapeA
    /\ factoryCalls = {1}

====
